---- MODULE Spec2Model ----
(***************************************************************************)
(* PiRexBot supervisor (src/src/app/pirexbot.cpp): main's start-up, the    *)
(* control loop with its periodic save, motor watchdog and activity LED,   *)
(* and the shutdown path, together with the asynchronous contexts that     *)
(* touch main's state: the signal handler, the camera error listener, the  *)
(* camera's thread and the web server's access ledger.                     *)
(***************************************************************************)
EXTENDS Integers, Sequences, FiniteSets, TLC

VARIABLES
    pc,                   \* position of main
    exitCode,             \* << >> while main runs, then << value returned >>
    ExitEvent,            \* XManualResetEvent ExitEvent: TRUE once signaled
    handlers,             \* TRUE once sigaction installed sigIntHandler
    saveCounter,          \* int saveCounter of main
    server,               \* XWebServer server
    camera,               \* XRaspiCamera xcamera
    distance,             \* DistanceController (optional)
    led,                  \* BOT_PIN_CONNECTION_ACTIVE_LED output
    motors,               \* MotorsController: "idle" until first commanded
    motorAge,             \* now - server.LastAccessTime( "/motors/config" ), ms
    anyAge,               \* now - server.LastAccessTime( ), ms
    timeSinceMotorAccess, \* local of the loop body, -1 outside its scope
    build,                \* compile-time features of BotConfig.h
    ticks,                \* history: number of timed-out waits so far
    log,                  \* history: life-cycle calls made by main, in order
    saveTicks,            \* history: ticks on which the loop saved
    signalers,            \* history: the callers of ExitEvent.Signal( ) so far
    signalTick,           \* history: ticks when ExitEvent was first set, or -1
    fatalSeen,            \* history: OnError was called with fatal = true
    lateSaves,            \* history: in-loop saves made with ExitEvent set
    stopIssued,           \* history: motorsController->Stop in this loop body
    bodyLog,              \* history: the steps made since the latest wait ended
    signalEarly,          \* history: ExitEvent was first set before the loop
    argv,                 \* argv[1] .. argv[argc - 1], each a sequence of chars
    env,                  \* NDEBUG of the build, and whether getpwuid succeeds
    Settings              \* the global Settings

vars == << pc, exitCode, ExitEvent, handlers, saveCounter, server, camera,
           distance, led, motors, motorAge, anyAge, timeSinceMotorAccess,
           build, ticks, log, saveTicks, signalers, signalTick, fatalSeen,
           lateSaves, stopIssued, bodyLog, signalEarly, argv, env,
           Settings >>

(***************************************************************************)
(* Program constants                                                       *)
(***************************************************************************)
WaitPeriod == 1000
SavePeriod == 60
MotorIdleLimit == 1000
LedActiveLimit == 2000

(***************************************************************************)
(* Bounds of the model                                                     *)
(***************************************************************************)

\* Loop iterations explored by Spec, and by SpecLong
MaxTicks == 61
MaxTicksLong == 121

\* Ages at or above AgeCap are all represented by AgeCap
AgeCap == 2001

\* Amounts of time, in ms, that may pass between two steps of the loop
Deltas == {999}

Advance(age, d) == IF age + d > AgeCap THEN AgeCap ELSE age + d

\* #ifdef BOT_DISTANCE_ENABLE_MEASUREMENTS, #ifdef BOT_PIN_CONNECTION_ACTIVE_LED
Features == [distance : BOOLEAN, activityLed : BOOLEAN]

(***************************************************************************)
(* Settings, SetDefaultSettings and ParseCommandLine                       *)
(*                                                                         *)
(* A C string is the sequence of its characters, each a one-character      *)
(* string. A uint32_t read by sscanf is kept as two 16-bit limbs, hi and   *)
(* lo, so that its arithmetic stays exact modulo 2^32.                     *)
(***************************************************************************)

\* The builds and environments: NDEBUG defined or not, getpwuid( ) found the
\* user or returned NULL
Envs == [ndebug : BOOLEAN, pwd : BOOLEAN]

\* pw_dir of the user that runs the program
HomeDir == << "/", "h" >>

\* The global Settings before main runs: static storage, zero-initialised;
\* UserGroup's first enumerator is Anyone
ZeroSettings ==
    [FrameWidth |-> 0, FrameHeight |-> 0, FrameRate |-> 0, JpegQuality |-> 0,
     WebPort |-> 0, HtRealm |-> << >>, HtDigestFileName |-> << >>,
     CameraConfigFileName |-> << >>, CustomWebContent |-> << >>,
     BotTitle |-> << >>, ViewersGroup |-> "Anyone", ConfigGroup |-> "Anyone"]

\* SetDefaultSettings( ), on Settings S in environment e
SetDefaultSettings(S, e) ==
    [S EXCEPT
       !.FrameWidth = 640,
       !.FrameHeight = 480,
       !.FrameRate = 30,
       !.JpegQuality = 10,
       !.WebPort = 8000,
       !.HtRealm = << "p", "i", "r", "e", "x", "b", "o", "t" >>,
       !.HtDigestFileName = << >>,
       !.ViewersGroup = "Anyone",
       !.ConfigGroup = "Anyone",
       !.CameraConfigFileName =
           IF e.pwd
              THEN HomeDir \o << "/", ".", "c", "a", "m", "_", "c", "o", "n",
                                 "f", "i", "g" >>
              ELSE @,
       !.CustomWebContent =
           IF e.ndebug THEN << >> ELSE << ".", "/", "w", "e", "b" >>,
       !.BotTitle = << "P", "i", "R", "e", "x", " ", "B", "o", "t" >>]

\* The option keys ParseCommandLine compares with
KeySize == << "s", "i", "z", "e" >>
KeyFps == << "f", "p", "s" >>
KeyJpeg == << "j", "p", "e", "g" >>
KeyPort == << "p", "o", "r", "t" >>
KeyRealm == << "r", "e", "a", "l", "m" >>
KeyHtpass == << "h", "t", "p", "a", "s", "s" >>
KeyViewer == << "v", "i", "e", "w", "e", "r" >>
KeyConfig == << "c", "o", "n", "f", "i", "g" >>
KeyFcfg == << "f", "c", "f", "g" >>
KeyWeb == << "w", "e", "b" >>
KeyTitle == << "t", "i", "t", "l", "e" >>

\* static const uint32_t SupportedWidth[], SupportedHeight[] (index v + 1)
SupportedWidth == << 320, 480, 640, 800, 1120 >>
SupportedHeight == << 240, 360, 480, 600, 840 >>

\* SupportedUserGroups.find( value ): << group >> when found, << >> for end( )
SupportedUserGroups(value) ==
    CASE value = << "a", "n", "y" >> -> << "Anyone" >>
      [] value = << "u", "s", "e", "r" >> -> << "User" >>
      [] value = << "a", "d", "m", "i", "n" >> -> << "Admin" >>
      [] OTHER -> << >>

\* strchr( s, c ): the position of the first c in s, 0 for nullptr
Strchr(s, c) ==
    IF \E k \in 1..Len(s) : s[k] = c
       THEN CHOOSE k \in 1..Len(s) :
               s[k] = c /\ \A j \in 1..(k - 1) : s[j] # c
       ELSE 0

\* ( ptrDelimiter == nullptr ) || ( argv[i][0] != '-' ); the empty string has
\* no ':' in it
Malformed(arg) == Strchr(arg, ":") = 0 \/ arg[1] # "-"

\* string( argv[i] + 1, ptrDelimiter - argv[i] - 1 )
Key(arg) == SubSeq(arg, 2, Strchr(arg, ":") - 1)

\* string( ptrDelimiter + 1 )
Value(arg) == SubSeq(arg, Strchr(arg, ":") + 1, Len(arg))

\* ( key.empty( ) ) || ( value.empty( ) )
EmptyKeyOrValue(key, value) == key = << >> \/ value = << >>

DigitChars == << "0", "1", "2", "3", "4", "5", "6", "7", "8", "9" >>

IsDigit(c) == \E d \in 1..10 : DigitChars[d] = c

DigitValue(c) == (CHOOSE d \in 1..10 : DigitChars[d] = c) - 1

\* value[0] - '0': the digit's value; every other character gives a number
\* outside 0..9, of which only that it is outside 0..4 is used
CharMinusZero(c) == IF IsDigit(c) THEN DigitValue(c) ELSE -1

\* 2^16, the base of the two limbs of a uint32_t
Limb == 2 ^ 16

\* acc * 10 + d modulo 2^32
TimesTenPlus(acc, d) ==
    LET low == acc.lo * 10 + d
    IN  [hi |-> (acc.hi * 10 + low \div Limb) % Limb, lo |-> low % Limb]

\* 0 - u modulo 2^32
Negated(u) ==
    IF u.lo = 0
       THEN [hi |-> (Limb - u.hi) % Limb, lo |-> 0]
       ELSE [hi |-> Limb - 1 - u.hi, lo |-> Limb - u.lo]

RECURSIVE SkipSpaces(_)
SkipSpaces(s) ==
    IF s # << >> /\ Head(s) = " " THEN SkipSpaces(Tail(s)) ELSE s

RECURSIVE LeadingDigits(_)
LeadingDigits(s) ==
    IF s # << >> /\ IsDigit(Head(s))
       THEN << Head(s) >> \o LeadingDigits(Tail(s))
       ELSE << >>

RECURSIVE Decimal(_, _)
Decimal(acc, digits) ==
    IF digits = << >>
       THEN acc
       ELSE Decimal(TimesTenPlus(acc, DigitValue(Head(digits))), Tail(digits))

\* sscanf( value.c_str( ), "%u", &field ): white space is skipped, a sign is
\* accepted, then the longest run of digits is converted; << >> when nothing
\* was converted (scanned != 1, field untouched), else << the uint32_t >>.
\* Texts of ten digits or more, whose value may not fit, are not among the
\* inputs
ScanUnsigned(value) ==
    LET s == SkipSpaces(value)
        signed == s # << >> /\ Head(s) \in {"+", "-"}
        digits == LeadingDigits(IF signed THEN Tail(s) ELSE s)
        n == Decimal([hi |-> 0, lo |-> 0], digits)
    IN  IF digits = << >>
           THEN << >>
           ELSE << IF signed /\ Head(s) = "-" THEN Negated(n) ELSE n >>

\* u < k and u > k for a uint32_t u and 0 <= k < 2^16
Below(u, k) == u.hi = 0 /\ u.lo < k
Above(u, k) == u.hi > 0 \/ u.lo > k

\* if ( ( FrameRate < 1 ) || ( FrameRate > 30 ) ) FrameRate = 30;
ClampFrameRate(u) == IF Below(u, 1) \/ Above(u, 30) THEN 30 ELSE u.lo

\* Mutant of ClampJpegQuality: the lower limit is not enforced
ClampJpegQualityAbove(u) == IF Above(u, 100) THEN 100 ELSE u.lo

\* if ( JpegQuality < 1 ) JpegQuality = 1;
\* if ( JpegQuality > 100 ) JpegQuality = 100;
ClampJpegQuality(u) ==
    LET q == IF Below(u, 1) THEN [hi |-> 0, lo |-> 1] ELSE u
    IN  IF Above(q, 100) THEN 100 ELSE q.lo

\* if ( WebPort > 65535 ) WebPort = 65535;
ClampWebPort(u) == IF Above(u, 65535) THEN 65535 ELSE u.lo

\* The locals of ParseCommandLine before its loop, with Settings S;
\* viewersGroup and configGroup are not initialised, and are read only after
\* their override flag was set together with them
ParseLocals(S) ==
    [S |-> S,
     overrideViewersGroup |-> FALSE, viewersGroup |-> "uninitialised",
     overrideConfigGroup |-> FALSE, configGroup |-> "uninitialised"]

\* key == "size"
ApplySize(st, value) ==
    LET v == CharMinusZero(value[1])
    IN  IF v < 0 \/ v > 4
           THEN << >>
           ELSE << [st EXCEPT !.S.FrameWidth = SupportedWidth[v + 1],
                              !.S.FrameHeight = SupportedHeight[v + 1]] >>

\* key == "fps"
ApplyFps(st, value) ==
    LET scanned == ScanUnsigned(value)
    IN  IF scanned = << >>
           THEN << >>
           ELSE << [st EXCEPT !.S.FrameRate = ClampFrameRate(scanned[1])] >>

\* key == "jpeg"
ApplyJpeg(st, value) ==
    LET scanned == ScanUnsigned(value)
    IN  IF scanned = << >>
           THEN << >>
           ELSE << [st EXCEPT
                      !.S.JpegQuality = ClampJpegQuality(scanned[1])] >>

\* key == "port"
ApplyPort(st, value) ==
    LET scanned == ScanUnsigned(value)
    IN  IF scanned = << >>
           THEN << >>
           ELSE << [st EXCEPT !.S.WebPort = ClampWebPort(scanned[1])] >>

\* key == "htpass": the file name, and viewing for users, settings for admin
ApplyHtpass(st, value) ==
    << [st EXCEPT !.S.HtDigestFileName = value,
                  !.S.ViewersGroup = "User",
                  !.S.ConfigGroup = "Admin"] >>

\* Mutant of ApplyViewer: the group goes to Settings when its token is read
ApplyViewerAtOnce(st, value) ==
    LET itGroup == SupportedUserGroups(value)
    IN  IF itGroup = << >>
           THEN << >>
           ELSE << [st EXCEPT !.S.ViewersGroup = itGroup[1]] >>

\* key == "viewer"
ApplyViewer(st, value) ==
    LET itGroup == SupportedUserGroups(value)
    IN  IF itGroup = << >>
           THEN << >>
           ELSE << [st EXCEPT !.viewersGroup = itGroup[1],
                              !.overrideViewersGroup = TRUE] >>

\* key == "config"
ApplyConfig(st, value) ==
    LET itGroup == SupportedUserGroups(value)
    IN  IF itGroup = << >>
           THEN << >>
           ELSE << [st EXCEPT !.configGroup = itGroup[1],
                              !.overrideConfigGroup = TRUE] >>

\* Mutant of ApplyFcfg: the value goes to the field of -web
ApplyFcfgToWeb(st, value) == << [st EXCEPT !.S.CustomWebContent = value] >>

\* key == "fcfg"
ApplyFcfg(st, value) == << [st EXCEPT !.S.CameraConfigFileName = value] >>

\* One iteration of the for loop on argv[i] = arg: << >> when it ends in a
\* break, else << the locals and Settings after it >>
ApplyToken(st, arg) ==
    IF Malformed(arg)
       THEN << >>
       ELSE LET key == Key(arg)
                value == Value(arg)
            IN  IF EmptyKeyOrValue(key, value)
                   THEN << >>
                   ELSE CASE key = KeySize -> ApplySize(st, value)
                          [] key = KeyFps -> ApplyFps(st, value)
                          [] key = KeyJpeg -> ApplyJpeg(st, value)
                          [] key = KeyPort -> ApplyPort(st, value)
                          [] key = KeyRealm ->
                                << [st EXCEPT !.S.HtRealm = value] >>
                          [] key = KeyHtpass -> ApplyHtpass(st, value)
                          [] key = KeyViewer -> ApplyViewer(st, value)
                          [] key = KeyConfig -> ApplyConfig(st, value)
                          [] key = KeyFcfg -> ApplyFcfg(st, value)
                          [] key = KeyWeb ->
                                << [st EXCEPT !.S.CustomWebContent = value] >>
                          [] key = KeyTitle ->
                                << [st EXCEPT !.S.BotTitle = value] >>
                          [] OTHER -> << >>

\* Mutant of ParseLoop: continue in place of break; i keeps the first
\* rejected token
RECURSIVE ParseLoopContinues(_, _, _)
ParseLoopContinues(st, args, i) ==
    IF i > Len(args)
       THEN [st |-> st, i |-> i]
       ELSE LET r == ApplyToken(st, args[i])
                rest == ParseLoopContinues(IF r = << >> THEN st ELSE r[1],
                                           args, i + 1)
            IN  IF r = << >> THEN [st |-> rest.st, i |-> i] ELSE rest

\* for ( i = 1; i < argc; i++ ) { ... }: the locals and Settings when the
\* loop is left, and i (argc = Len(args) + 1)
RECURSIVE ParseLoop(_, _, _)
ParseLoop(st, args, i) ==
    IF i > Len(args)
       THEN [st |-> st, i |-> i]
       ELSE LET r == ApplyToken(st, args[i])
            IN  IF r = << >>
                   THEN [st |-> st, i |-> i]
                   ELSE ParseLoop(r[1], args, i + 1)

\* Mutant of GroupsIgnored: the requested groups are never ignored
GroupsNeverIgnored(st) == FALSE

\* The condition of the warning: a group other than Anyone was requested and
\* no users file was specified
GroupsIgnored(st) ==
    /\ \/ st.overrideViewersGroup /\ st.viewersGroup # "Anyone"
       \/ st.overrideConfigGroup /\ st.configGroup # "Anyone"
    /\ st.S.HtDigestFileName = << >>

\* The if / else after the loop: Settings with the requested groups
ResolveGroups(st) ==
    IF GroupsIgnored(st)
       THEN st.S
       ELSE [st.S EXCEPT
               !.ViewersGroup =
                   IF st.overrideViewersGroup THEN st.viewersGroup ELSE @,
               !.ConfigGroup =
                   IF st.overrideConfigGroup THEN st.configGroup ELSE @]

\* ParseCommandLine( argc, argv ) on Settings S: Settings after it, and its
\* return value ( i == argc )
ParseCommandLine(S, args) ==
    LET r == ParseLoop(ParseLocals(S), args, 1)
    IN  [Settings |-> ResolveGroups(r.st), ret |-> r.i = Len(args) + 1]

(***************************************************************************)
(* The command lines explored                                              *)
(***************************************************************************)

\* The token -key:value
Opt(key, value) == << "-" >> \o key \o << ":" >> \o value

\* Tokens that ParseCommandLine accepts
GoodTokens ==
    {Opt(KeySize, << "0" >>), Opt(KeySize, << "4" >>),
     Opt(KeyFps, << "4", "5" >>), Opt(KeyFps, << "0" >>),
     Opt(KeyFps, << "1", "5" >>),
     Opt(KeyJpeg, << "1", "5", "0" >>), Opt(KeyJpeg, << "0" >>),
     Opt(KeyPort, << "9", "0", "9", "0" >>),
     Opt(KeyPort, << "7", "0", "0", "0", "0" >>),
     Opt(KeyPort, << "-", "1" >>),
     Opt(KeyRealm, << "r" >>), Opt(KeyHtpass, << "f" >>),
     Opt(KeyViewer, << "a", "d", "m", "i", "n" >>),
     Opt(KeyViewer, << "a", "n", "y" >>),
     Opt(KeyConfig, << "u", "s", "e", "r" >>),
     Opt(KeyConfig, << "a", "n", "y" >>),
     Opt(KeyFcfg, << "c" >>), Opt(KeyWeb, << "w" >>),
     Opt(KeyTitle, << "t" >>)}

\* Tokens at which it stops: no ':', no leading '-', empty key, empty value,
\* unknown key, unknown value, and the empty string
BadTokens ==
    {<< "-", "f", "p", "s" >>, << "f", "p", "s", ":", "5" >>,
     << "-", ":", "5" >>, Opt(KeyRealm, << >>), Opt(<< "b" >>, << "1" >>),
     Opt(KeySize, << "5" >>), Opt(KeyFps, << "x" >>),
     Opt(KeyViewer, << "r", "o", "o", "t" >>), << >>}

Tokens == GoodTokens \cup BadTokens

\* The command lines made of the tokens of s in another order
Reorderings(s) ==
    {[i \in DOMAIN s |-> s[f[i]]] :
        f \in {g \in [DOMAIN s -> DOMAIN s] :
                  \A i, j \in DOMAIN s : g[i] = g[j] => i = j}}

\* Every command line of up to MaxArgs tokens is explored
MaxArgs == 2

SeqsUpTo(S, n) == UNION {[1..k -> S] : k \in 0..n}

\* Longer command lines explored beside them: three numeric options, the
\* three options of the groups in every order, a rejected token between two
\* accepted ones, -htpass among other options
LongArgvs ==
    {<< Opt(KeyPort, << "9", "0", "9", "0" >>), Opt(KeyFps, << "4", "5" >>),
        Opt(KeyJpeg, << "1", "5", "0" >>) >>,
     << Opt(KeyFps, << "1", "5" >>), << "-", "f", "p", "s" >>,
        Opt(KeyPort, << "9", "0", "9", "0" >>) >>,
     << Opt(KeyHtpass, << "f" >>), Opt(KeyFcfg, << "c" >>),
        Opt(KeySize, << "4" >>) >>}
    \cup Reorderings(<< Opt(KeyHtpass, << "f" >>),
                        Opt(KeyViewer, << "a", "d", "m", "i", "n" >>),
                        Opt(KeyConfig, << "u", "s", "e", "r" >>) >>)

\* The command lines of SpecParse, and those main is run with in Spec
Argvs == SeqsUpTo(Tokens, MaxArgs) \cup LongArgvs
MainArgvs == {<< >>, << << "-", "f", "p", "s" >> >>}
MainEnvs == {[ndebug |-> TRUE, pwd |-> TRUE]}

\* The state when main is entered. The ledger has no access yet: its time
\* points are either the clock's epoch (long ago) or the server's creation
Init ==
    /\ pc = "parse"
    /\ exitCode = << >>
    /\ ExitEvent = FALSE
    /\ handlers = FALSE
    /\ saveCounter = 0
    /\ server = "unstarted"
    /\ camera = "unstarted"
    /\ distance = "unstarted"
    /\ led = "unset"
    /\ motors = "idle"
    /\ motorAge \in {0, AgeCap}
    /\ anyAge = motorAge
    /\ timeSinceMotorAccess = -1
    /\ build \in Features
    /\ ticks = 0
    /\ log = << >>
    /\ saveTicks = {}
    /\ signalers = {}
    /\ signalTick = -1
    /\ fatalSeen = FALSE
    /\ lateSaves = 0
    /\ stopIssued = FALSE
    /\ bodyLog = << >>
    /\ signalEarly = FALSE
    /\ argv \in MainArgvs
    /\ env \in MainEnvs
    /\ Settings = ZeroSettings

\* main entered with any of the command lines, in any environment; the
\* build's features and the ledger play no part in the parsing
InitParse ==
    /\ pc = "parse"
    /\ exitCode = << >>
    /\ ExitEvent = FALSE
    /\ handlers = FALSE
    /\ saveCounter = 0
    /\ server = "unstarted"
    /\ camera = "unstarted"
    /\ distance = "unstarted"
    /\ led = "unset"
    /\ motors = "idle"
    /\ motorAge = AgeCap
    /\ anyAge = AgeCap
    /\ timeSinceMotorAccess = -1
    /\ build = [distance |-> TRUE, activityLed |-> TRUE]
    /\ ticks = 0
    /\ log = << >>
    /\ saveTicks = {}
    /\ signalers = {}
    /\ signalTick = -1
    /\ fatalSeen = FALSE
    /\ lateSaves = 0
    /\ stopIssued = FALSE
    /\ bodyLog = << >>
    /\ signalEarly = FALSE
    /\ argv \in Argvs
    /\ env \in Envs
    /\ Settings = ZeroSettings

(***************************************************************************)
(* ExitEvent (XManualResetEvent) and the two contexts that signal it       *)
(***************************************************************************)

\* Mutant of Signal: a second call clears the event again
SignalToggles == ExitEvent' = ~ExitEvent

\* ExitEvent.Signal( ): sets the event; the program never calls Reset( )
Signal == ExitEvent' = TRUE

\* Mutant of WaitResult: a wait that reports only an event set while the loop
\* runs, so that a signal before the loop is lost
WaitMissesEarlySignal == ExitEvent /\ ~signalEarly

\* Mutant of WaitResult: the wait never reports the event
WaitNeverSignaled == FALSE

\* ExitEvent.Wait( 1000 ): true when the event is set, false on time-out
WaitResult == ExitEvent

\* main is between the installation of the handlers and the loop's first wait
BeforeLoop == pc \in {"load", "serverStart", "cameraStart", "distanceStart"}

\* sigIntHandler, run on delivery of SIGINT, SIGQUIT, SIGTERM or SIGABRT
sigIntHandler ==
    /\ handlers
    /\ pc # "exited"
    /\ Signal
    /\ signalers' = signalers \cup {"sigIntHandler"}
    /\ signalTick' = IF ExitEvent THEN signalTick ELSE ticks
    /\ signalEarly' = IF ExitEvent THEN signalEarly ELSE BeforeLoop
    /\ UNCHANGED << pc, exitCode, handlers, saveCounter, server, camera,
                    distance, led, motors, motorAge, anyAge,
                    timeSinceMotorAccess, build, ticks, log, saveTicks,
                    fatalSeen, lateSaves, stopIssued, argv, env, Settings,
                    bodyLog >>

\* Mutant of OnErrorSignals: every camera error raises the exit event
OnErrorAlwaysSignals(fatal) == TRUE

\* CameraErrorListener::OnError: if ( fatal ) ExitEvent.Signal( )
OnErrorSignals(fatal) == fatal

\* CameraErrorListener::OnError, called on the camera's thread
OnError(fatal) ==
    /\ camera \in {"running", "stopping"}
    /\ fatalSeen' = (fatalSeen \/ fatal)
    /\ IF OnErrorSignals(fatal)
          THEN /\ Signal
               /\ signalers' = signalers \cup
                     {IF fatal THEN "OnError.fatal" ELSE "OnError.error"}
               /\ signalTick' = IF ExitEvent THEN signalTick ELSE ticks
               /\ signalEarly' = IF ExitEvent THEN signalEarly ELSE BeforeLoop
          ELSE UNCHANGED << ExitEvent, signalers, signalTick, signalEarly >>
    /\ UNCHANGED << pc, exitCode, handlers, saveCounter, server, camera,
                    distance, led, motors, motorAge, anyAge,
                    timeSinceMotorAccess, build, ticks, log, saveTicks,
                    lateSaves, stopIssued, argv, env, Settings, bodyLog >>

\* The camera's thread ends after SignalToStop
CameraThreadExit ==
    /\ camera = "stopping"
    /\ camera' = "stopped"
    /\ UNCHANGED << pc, exitCode, ExitEvent, handlers, saveCounter, server,
                    distance, led, motors, motorAge, anyAge,
                    timeSinceMotorAccess, build, ticks, log, saveTicks,
                    signalers, signalTick, fatalSeen, lateSaves, stopIssued,
                    argv, env, Settings, bodyLog, signalEarly >>

(***************************************************************************)
(* The access ledger of the web server and the steady clock                *)
(***************************************************************************)

\* A request served by the running web server; toMotors: it is a request to
\* /motors/config, which commands the motors
WebAccess(toMotors) ==
    /\ server = "running"
    /\ anyAge' = 0
    /\ IF toMotors
          THEN /\ motorAge' = 0
               /\ motors' = "commanded"
          ELSE UNCHANGED << motorAge, motors >>
    /\ UNCHANGED << pc, exitCode, ExitEvent, handlers, saveCounter, server,
                    camera, distance, led, timeSinceMotorAccess, build, ticks,
                    log, saveTicks, signalers, signalTick, fatalSeen, lateSaves,
                    stopIssued, argv, env, Settings, bodyLog, signalEarly >>

\* steady_clock advances by d ms between two steps of main. main reads the
\* clock in the loop only, so time that passes elsewhere is not observed;
\* the wait ends as soon as the event is set
Elapse(d) ==
    /\ \/ pc \in {"watchdog", "led"}
       \/ pc = "wait" /\ ~ExitEvent
    /\ motorAge' = Advance(motorAge, d)
    /\ anyAge' = Advance(anyAge, d)
    /\ UNCHANGED << pc, exitCode, ExitEvent, handlers, saveCounter, server,
                    camera, distance, led, motors, timeSinceMotorAccess, build,
                    ticks, log, saveTicks, signalers, signalTick, fatalSeen,
                    lateSaves, stopIssued, argv, env, Settings, bodyLog,
                    signalEarly >>

(***************************************************************************)
(* main: start-up                                                          *)
(***************************************************************************)

\* return -1 of main after ParseCommandLine failed
ParseFailureCode == -1

\* return 0 at the end of main
FinalCode == 0

\* SetDefaultSettings( ); if ( !ParseCommandLine( argc, argv ) ) return -1;
ParseArgs ==
    /\ pc = "parse"
    /\ LET r == ParseCommandLine(SetDefaultSettings(Settings, env), argv)
       IN  /\ Settings' = r.Settings
           /\ IF r.ret
                 THEN /\ pc' = "botInit"
                      /\ UNCHANGED exitCode
                 ELSE /\ pc' = "exited"
                      /\ exitCode' = << ParseFailureCode >>
    /\ UNCHANGED << ExitEvent, handlers, saveCounter, server, camera, distance,
                    led, motors, motorAge, anyAge, timeSinceMotorAccess, build,
                    ticks, log, saveTicks, signalers, signalTick, fatalSeen,
                    lateSaves, stopIssued, argv, env, bodyLog, signalEarly >>

\* BotInit( ): the activity LED, when the build has it, is driven LOW
BotInit ==
    /\ pc = "botInit"
    /\ pc' = "sigaction"
    /\ led' = IF build.activityLed THEN "Off" ELSE led
    /\ log' = Append(log, "BotInit")
    /\ UNCHANGED << exitCode, ExitEvent, handlers, saveCounter, server, camera,
                    distance, motors, motorAge, anyAge, timeSinceMotorAccess,
                    build, ticks, saveTicks, signalers, signalTick, fatalSeen,
                    lateSaves, stopIssued, argv, env, Settings, bodyLog,
                    signalEarly >>

\* sigaction( SIGINT ... SIGTERM, &sigIntAction, NULL )
InstallHandlers ==
    /\ pc = "sigaction"
    /\ pc' = "load"
    /\ handlers' = TRUE
    /\ UNCHANGED << exitCode, ExitEvent, saveCounter, server, camera, distance,
                    led, motors, motorAge, anyAge, timeSinceMotorAccess, build,
                    ticks, log, saveTicks, signalers, signalTick, fatalSeen,
                    lateSaves, stopIssued, argv, env, Settings, bodyLog,
                    signalEarly >>

\* Mutant of LoadConfiguration: the configuration is loaded twice
LoadConfigurationTwice ==
    /\ pc = "load"
    /\ pc' = "serverStart"
    /\ log' = log \o << "LoadConfiguration", "LoadConfiguration" >>
    /\ UNCHANGED << exitCode, ExitEvent, handlers, saveCounter, server, camera,
                    distance, led, motors, motorAge, anyAge,
                    timeSinceMotorAccess, build, ticks, saveTicks, signalers,
                    signalTick, fatalSeen, lateSaves, stopIssued, argv, env,
                    Settings, bodyLog, signalEarly >>

\* serializer.LoadConfiguration( )
LoadConfiguration ==
    /\ pc = "load"
    /\ pc' = "serverStart"
    /\ log' = Append(log, "LoadConfiguration")
    /\ UNCHANGED << exitCode, ExitEvent, handlers, saveCounter, server, camera,
                    distance, led, motors, motorAge, anyAge,
                    timeSinceMotorAccess, build, ticks, saveTicks, signalers,
                    signalTick, fatalSeen, lateSaves, stopIssued, argv, env,
                    Settings, bodyLog, signalEarly >>

\* Mutant of StartBranch: the result of server.Start( ) is ignored
StartBranchIgnored(started) == "cameraStart"

\* if ( server.Start( ) ) { ... } else { ... }: where main goes next
StartBranch(started) == IF started THEN "cameraStart" ELSE "shutdown"

\* server.Start( ); on success int saveCounter = 0
ServerStart ==
    /\ pc = "serverStart"
    /\ log' = Append(log, "server.Start")
    /\ \E started \in BOOLEAN :
          /\ server' = IF started THEN "running" ELSE "failed"
          /\ saveCounter' = IF started THEN 0 ELSE saveCounter
          /\ pc' = StartBranch(started)
    /\ UNCHANGED << exitCode, ExitEvent, handlers, camera, distance, led,
                    motors, motorAge, anyAge, timeSinceMotorAccess, build,
                    ticks, saveTicks, signalers, signalTick, fatalSeen,
                    lateSaves, stopIssued, argv, env, Settings, bodyLog,
                    signalEarly >>

\* xcamera->Start( )
CameraStart ==
    /\ pc = "cameraStart"
    /\ camera' = "running"
    /\ log' = Append(log, "camera.Start")
    /\ pc' = IF build.distance THEN "distanceStart" ELSE "wait"
    /\ UNCHANGED << exitCode, ExitEvent, handlers, saveCounter, server,
                    distance, led, motors, motorAge, anyAge,
                    timeSinceMotorAccess, build, ticks, saveTicks, signalers,
                    signalTick, fatalSeen, lateSaves, stopIssued, argv, env,
                    Settings, bodyLog, signalEarly >>

\* distanceController->StartMeasurements( )
DistanceStart ==
    /\ pc = "distanceStart"
    /\ distance' = "running"
    /\ log' = Append(log, "distance.StartMeasurements")
    /\ pc' = "wait"
    /\ UNCHANGED << exitCode, ExitEvent, handlers, saveCounter, server, camera,
                    led, motors, motorAge, anyAge, timeSinceMotorAccess, build,
                    ticks, saveTicks, signalers, signalTick, fatalSeen,
                    lateSaves, stopIssued, argv, env, Settings, bodyLog,
                    signalEarly >>

(***************************************************************************)
(* main: the control loop                                                  *)
(***************************************************************************)

\* Mutant of Teardown: the web server is stopped before the camera
TeardownServerFirst ==
    << "distanceStop", "finalSave", "serverStop", "signalToStop",
       "waitForStop" >>

\* Mutant of Teardown: the configuration is saved after the subsystems stopped
TeardownSaveLast ==
    << "distanceStop", "signalToStop", "waitForStop", "serverStop",
       "finalSave" >>

\* Mutant of Teardown: the web server is left running
TeardownWithoutServerStop ==
    << "distanceStop", "finalSave", "signalToStop", "waitForStop" >>

\* The steps of main after the loop, in program order
Teardown ==
    << "distanceStop", "finalSave", "signalToStop", "waitForStop",
       "serverStop" >>

\* The steps compiled into this build (#ifdef BOT_DISTANCE_ENABLE_MEASUREMENTS)
TeardownSteps ==
    IF build.distance
       THEN Teardown
       ELSE SelectSeq(Teardown, LAMBDA p : p # "distanceStop")

\* The position of main after teardown step p
After(p) ==
    LET i == CHOOSE k \in 1..Len(TeardownSteps) : TeardownSteps[k] = p
    IN  IF i = Len(TeardownSteps) THEN "shutdown" ELSE TeardownSteps[i + 1]

\* Mutant of SaveDue: saveCounter++ == 60, the counter compared before its
\* increment
SaveDuePostIncrement(counter) == counter - 1 = SavePeriod

\* if ( ++saveCounter == 60 ), on the incremented counter
SaveDue(counter) == counter = SavePeriod

\* Mutant of WatchdogFires: > in place of >=
WatchdogFiresLate(elapsed) == elapsed > MotorIdleLimit

\* if ( timeSinceMotorAccess >= 1000 )
WatchdogFires(elapsed) == elapsed >= MotorIdleLimit

\* Mutant of LedLevel: <= in place of <
LedLevelInclusive(elapsed) ==
    IF elapsed <= LedActiveLimit THEN "On" ELSE "Off"

\* ( timeSinceLastAccess < 2000 ) ? HIGH : LOW
LedLevel(elapsed) == IF elapsed < LedActiveLimit THEN "On" ELSE "Off"

\* motorsController->Stop( ): stopping motors that do not run changes nothing
MotorsStop == IF motors = "idle" THEN "idle" ELSE "stopped"

\* while ( !ExitEvent.Wait( 1000 ) ): the wait timed out, the body is entered
WaitTimeout(limit) ==
    /\ pc = "wait"
    /\ ~WaitResult
    /\ ticks < limit
    /\ pc' = "saveCheck"
    /\ ticks' = ticks + 1
    /\ motorAge' = Advance(motorAge, WaitPeriod)
    /\ anyAge' = Advance(anyAge, WaitPeriod)
    /\ bodyLog' = << "timed out" >>
    /\ UNCHANGED << exitCode, ExitEvent, handlers, saveCounter, server, camera,
                    distance, led, motors, timeSinceMotorAccess, build, log,
                    saveTicks, signalers, signalTick, fatalSeen, lateSaves,
                    stopIssued, argv, env, Settings, signalEarly >>

\* Mutant of WaitSignaled: a do-while loop, the body runs once more after the
\* wait that reported the event
WaitSignaledRunsBody ==
    /\ pc = "wait"
    /\ WaitResult
    /\ pc' = "saveCheck"
    /\ bodyLog' = << "signaled" >>
    /\ UNCHANGED << exitCode, ExitEvent, handlers, saveCounter, server, camera,
                    distance, led, motors, motorAge, anyAge,
                    timeSinceMotorAccess, build, ticks, log, saveTicks,
                    signalers, signalTick, fatalSeen, lateSaves, stopIssued,
                    argv, env, Settings, signalEarly >>

\* while ( !ExitEvent.Wait( 1000 ) ): the event is set, the loop is left
WaitSignaled ==
    /\ pc = "wait"
    /\ WaitResult
    /\ pc' = Head(TeardownSteps)
    /\ bodyLog' = << "signaled" >>
    /\ UNCHANGED << exitCode, ExitEvent, handlers, saveCounter, server, camera,
                    distance, led, motors, motorAge, anyAge,
                    timeSinceMotorAccess, build, ticks, log, saveTicks,
                    signalers, signalTick, fatalSeen, lateSaves, stopIssued,
                    argv, env, Settings, signalEarly >>

\* if ( ++saveCounter == 60 ) { serializer.SaveConfiguration( ); saveCounter = 0; }
SaveCheck ==
    /\ pc = "saveCheck"
    /\ pc' = "watchdog"
    /\ IF SaveDue(saveCounter + 1)
          THEN /\ saveCounter' = 0
               /\ saveTicks' = saveTicks \cup {ticks}
               /\ lateSaves' = IF ExitEvent THEN lateSaves + 1 ELSE lateSaves
          ELSE /\ saveCounter' = saveCounter + 1
               /\ UNCHANGED << saveTicks, lateSaves >>
    /\ bodyLog' = Append(bodyLog, "save check")
    /\ UNCHANGED << exitCode, ExitEvent, handlers, server, camera, distance,
                    led, motors, motorAge, anyAge, timeSinceMotorAccess, build,
                    ticks, log, signalers, signalTick, fatalSeen, stopIssued,
                    argv, env, Settings, signalEarly >>

\* timeSinceMotorAccess = now - server.LastAccessTime( "/motors/config" );
\* if ( timeSinceMotorAccess >= 1000 ) motorsController->Stop( );
Watchdog ==
    /\ pc = "watchdog"
    /\ pc' = "led"
    /\ timeSinceMotorAccess' = motorAge
    /\ IF WatchdogFires(motorAge)
          THEN /\ stopIssued' = TRUE
               /\ motors' = MotorsStop
          ELSE UNCHANGED << stopIssued, motors >>
    /\ bodyLog' = Append(bodyLog, "watchdog")
    /\ UNCHANGED << exitCode, ExitEvent, handlers, saveCounter, server, camera,
                    distance, led, motorAge, anyAge, build, ticks, log,
                    saveTicks, signalers, signalTick, fatalSeen, lateSaves,
                    argv, env, Settings, signalEarly >>

\* #ifdef BOT_PIN_CONNECTION_ACTIVE_LED digitalWrite( ... ) #endif, and the
\* end of the loop body
UpdateLed ==
    /\ pc = "led"
    /\ pc' = "wait"
    /\ led' = IF build.activityLed THEN LedLevel(anyAge) ELSE led
    /\ timeSinceMotorAccess' = -1
    /\ stopIssued' = FALSE
    /\ bodyLog' = Append(bodyLog, "led")
    /\ UNCHANGED << exitCode, ExitEvent, handlers, saveCounter, server, camera,
                    distance, motors, motorAge, anyAge, build, ticks, log,
                    saveTicks, signalers, signalTick, fatalSeen, lateSaves,
                    argv, env, Settings, signalEarly >>

(***************************************************************************)
(* main: shutdown                                                          *)
(***************************************************************************)

\* distanceController->StopMeasurements( )
DistanceStop ==
    /\ pc = "distanceStop"
    /\ pc' = After("distanceStop")
    /\ distance' = "stopped"
    /\ log' = Append(log, "distance.StopMeasurements")
    /\ UNCHANGED << exitCode, ExitEvent, handlers, saveCounter, server, camera,
                    led, motors, motorAge, anyAge, timeSinceMotorAccess, build,
                    ticks, saveTicks, signalers, signalTick, fatalSeen,
                    lateSaves, stopIssued, argv, env, Settings, bodyLog,
                    signalEarly >>

\* serializer.SaveConfiguration( ) after the loop
FinalSave ==
    /\ pc = "finalSave"
    /\ pc' = After("finalSave")
    /\ log' = Append(log, "SaveConfiguration")
    /\ UNCHANGED << exitCode, ExitEvent, handlers, saveCounter, server, camera,
                    distance, led, motors, motorAge, anyAge,
                    timeSinceMotorAccess, build, ticks, saveTicks, signalers,
                    signalTick, fatalSeen, lateSaves, stopIssued, argv, env,
                    Settings, bodyLog, signalEarly >>

\* xcamera->SignalToStop( )
SignalToStop ==
    /\ pc = "signalToStop"
    /\ pc' = After("signalToStop")
    /\ camera' = IF camera = "running" THEN "stopping" ELSE camera
    /\ log' = Append(log, "camera.SignalToStop")
    /\ UNCHANGED << exitCode, ExitEvent, handlers, saveCounter, server,
                    distance, led, motors, motorAge, anyAge,
                    timeSinceMotorAccess, build, ticks, saveTicks, signalers,
                    signalTick, fatalSeen, lateSaves, stopIssued, argv, env,
                    Settings, bodyLog, signalEarly >>

\* Mutant of WaitForStop: main does not wait for the camera's thread
WaitForStopAtOnce ==
    /\ pc = "waitForStop"
    /\ pc' = After("waitForStop")
    /\ log' = Append(log, "camera.WaitForStop")
    /\ UNCHANGED << exitCode, ExitEvent, handlers, saveCounter, server, camera,
                    distance, led, motors, motorAge, anyAge,
                    timeSinceMotorAccess, build, ticks, saveTicks, signalers,
                    signalTick, fatalSeen, lateSaves, stopIssued, argv, env,
                    Settings, bodyLog, signalEarly >>

\* xcamera->WaitForStop( ): returns once the camera's thread has ended
WaitForStop ==
    /\ pc = "waitForStop"
    /\ camera = "stopped"
    /\ pc' = After("waitForStop")
    /\ log' = Append(log, "camera.WaitForStop")
    /\ UNCHANGED << exitCode, ExitEvent, handlers, saveCounter, server, camera,
                    distance, led, motors, motorAge, anyAge,
                    timeSinceMotorAccess, build, ticks, saveTicks, signalers,
                    signalTick, fatalSeen, lateSaves, stopIssued, argv, env,
                    Settings, bodyLog, signalEarly >>

\* server.Stop( )
ServerStop ==
    /\ pc = "serverStop"
    /\ pc' = After("serverStop")
    /\ server' = "stopped"
    /\ log' = Append(log, "server.Stop")
    /\ UNCHANGED << exitCode, ExitEvent, handlers, saveCounter, camera,
                    distance, led, motors, motorAge, anyAge,
                    timeSinceMotorAccess, build, ticks, saveTicks, signalers,
                    signalTick, fatalSeen, lateSaves, stopIssued, argv, env,
                    Settings, bodyLog, signalEarly >>

\* BotShutDown( ); return 0;
BotShutDown ==
    /\ pc = "shutdown"
    /\ pc' = "exited"
    /\ led' = IF build.activityLed THEN "Off" ELSE led
    /\ log' = Append(log, "BotShutDown")
    /\ exitCode' = << FinalCode >>
    /\ UNCHANGED << ExitEvent, handlers, saveCounter, server, camera, distance,
                    motors, motorAge, anyAge, timeSinceMotorAccess, build,
                    ticks, saveTicks, signalers, signalTick, fatalSeen,
                    lateSaves, stopIssued, argv, env, Settings, bodyLog,
                    signalEarly >>

(***************************************************************************)
(* Specifications                                                          *)
(***************************************************************************)

\* One step of main; limit bounds the number of loop iterations explored
MainStep(limit) ==
    \/ ParseArgs
    \/ BotInit
    \/ InstallHandlers
    \/ LoadConfiguration
    \/ ServerStart
    \/ CameraStart
    \/ DistanceStart
    \/ WaitTimeout(limit)
    \/ WaitSignaled
    \/ SaveCheck
    \/ Watchdog
    \/ UpdateLed
    \/ DistanceStop
    \/ FinalSave
    \/ SignalToStop
    \/ WaitForStop
    \/ ServerStop
    \/ BotShutDown

\* main together with every context that runs beside it
Next ==
    \/ MainStep(MaxTicks)
    \/ sigIntHandler
    \/ \E fatal \in BOOLEAN : OnError(fatal)
    \/ CameraThreadExit
    \/ \E toMotors \in BOOLEAN : WebAccess(toMotors)
    \/ \E d \in Deltas : Elapse(d)

Spec == Init /\ [][Next]_vars

\* main over a longer run of the loop, with the signal handler and the
\* camera's thread beside it; the clock advances with the loop's wait only
NextLong ==
    \/ MainStep(MaxTicksLong)
    \/ sigIntHandler
    \/ CameraThreadExit

SpecLong == Init /\ [][NextLong]_vars

\* Loop iterations explored by SpecLive
MaxTicksLive == 3

\* main and every context beside it over a few iterations. main is a thread
\* that runs whenever it can; LiveCamera adds that the camera's thread ends
\* once SignalToStop was called, which is when WaitForStop returns
NextLive ==
    \/ MainStep(MaxTicksLive)
    \/ sigIntHandler
    \/ \E fatal \in BOOLEAN : OnError(fatal)
    \/ CameraThreadExit
    \/ \E toMotors \in BOOLEAN : WebAccess(toMotors)
    \/ \E d \in Deltas : Elapse(d)

LiveMain == WF_vars(MainStep(MaxTicksLive))

LiveCamera == WF_vars(CameraThreadExit)

SpecLive == Init /\ [][NextLive]_vars /\ LiveMain /\ LiveCamera

\* The same with a camera whose thread need not end
SpecHung == Init /\ [][NextLive]_vars /\ LiveMain

\* The start of main alone, over every command line explored
NextParse == ParseArgs

SpecParse == InitParse /\ [][NextParse]_vars

(***************************************************************************)
(* Reading the history of life-cycle calls                                 *)
(***************************************************************************)

In(e) == \E i \in DOMAIN log : log[i] = e

Pos(e) == CHOOSE i \in DOMAIN log : log[i] = e

Count(e) == Cardinality({i \in DOMAIN log : log[i] = e})

\* a was called before b, whenever b was called
Before(a, b) == In(b) => (In(a) /\ Pos(a) < Pos(b))

Reverse(s) == [i \in 1..Len(s) |-> s[Len(s) + 1 - i]]

IsPrefix(s, t) == Len(s) <= Len(t) /\ \A i \in 1..Len(s) : s[i] = t[i]

StartEvents ==
    {"server.Start", "camera.Start", "distance.StartMeasurements"}

StopEvents ==
    {"distance.StopMeasurements", "camera.SignalToStop", "server.Stop"}

Subsystem(e) ==
    CASE e \in {"server.Start", "server.Stop"} -> "server"
      [] e \in {"camera.Start", "camera.SignalToStop"} -> "camera"
      [] OTHER -> "distance"

\* The subsystems in the order main started them, and stopped them
Started ==
    LET s == SelectSeq(log, LAMBDA e : e \in StartEvents)
    IN  [i \in 1..Len(s) |-> Subsystem(s[i])]

Stopped ==
    LET s == SelectSeq(log, LAMBDA e : e \in StopEvents)
    IN  [i \in 1..Len(s) |-> Subsystem(s[i])]

\* main has returned through the shutdown path that follows the loop
ShutDownDone == pc = "exited" /\ server = "stopped"

\* The calls of a complete run of this build, from BotInit to BotShutDown
CompleteRun ==
    << "BotInit", "LoadConfiguration", "server.Start", "camera.Start" >>
    \o (IF build.distance
           THEN << "distance.StartMeasurements", "distance.StopMeasurements" >>
           ELSE << >>)
    \o << "SaveConfiguration", "camera.SignalToStop", "camera.WaitForStop",
          "server.Stop", "BotShutDown" >>

(***************************************************************************)
(* Claims                                                                  *)
(***************************************************************************)

\* C1: on the shutdown path the subsystems are stopped in the reverse of the
\* order in which they were started (at every moment the stops made so far
\* are a prefix of the reversed start order, and at exit they are all of it),
\* and camera SignalToStop, then the return of WaitForStop, precede
\* server.Stop.
C1_ReverseStopOrder ==
    /\ IsPrefix(Stopped, Reverse(Started))
    /\ ShutDownDone => Stopped = Reverse(Started)
    /\ Before("camera.SignalToStop", "camera.WaitForStop")
    /\ Before("camera.WaitForStop", "server.Stop")

C1_Witness ==
    /\ ShutDownDone
    /\ Started = << "server", "camera", "distance" >>
    /\ Stopped = << "distance", "camera", "server" >>

\* C2: the watchdog check runs at every wake-up of the loop's wait: after a
\* timed-out wait, and also after the wait that observed the exit event, a
\* last access to /motors/config that is at least 1000 ms old has made main
\* issue motorsController->Stop.
C2_WatchdogAtEveryWakeUp ==
    /\ (pc = "led" /\ timeSinceMotorAccess >= 1000) => stopIssued
    /\ (pc = Head(TeardownSteps) /\ motors # "idle" /\ motorAge >= 1000)
          => stopIssued

\* C3: in every executed loop body, Stop is issued if and only if the time
\* since the last access to /motors/config, as read by that body, is at
\* least 1000 ms.
C3_WatchdogThreshold ==
    pc = "led" =>
        /\ timeSinceMotorAccess >= 0
        /\ stopIssued <=> (timeSinceMotorAccess >= 1000)

C3_Witness ==
    /\ pc = "led"
    /\ timeSinceMotorAccess = 1000
    /\ stopIssued
    /\ motors = "stopped"

\* C4 as stated: once an exit signal was delivered while the loop runs, no
\* counter-triggered save is made any more, and the run ends with exactly
\* one save after the loop and exit code 0.
C4_NoSaveAfterSignal ==
    /\ signalers = {"sigIntHandler"} => lateSaves = 0
    /\ (ShutDownDone /\ signalers = {"sigIntHandler"}) =>
          /\ Count("SaveConfiguration") = 1
          /\ exitCode = << 0 >>

\* C4 amended: once the exit event is set no further loop iteration is
\* started; at most one counter-triggered save follows, and it is the save
\* of the loop body that was in progress when the event was set; exactly one
\* save is made after the loop, and the exit code is 0.
C4_SaveAfterSignal ==
    /\ ExitEvent => ticks = signalTick
    /\ lateSaves <= 1
    /\ lateSaves = 1 => signalTick \in saveTicks
    /\ ShutDownDone =>
          /\ Count("SaveConfiguration") = 1
          /\ exitCode = << 0 >>

C4_Witness ==
    /\ ShutDownDone
    /\ signalers = {"sigIntHandler"}
    /\ lateSaves = 1
    /\ signalTick = 60

\* C5 as stated: the save after the loop precedes the first stop operation
\* on any subsystem, StopMeasurements of the distance controller included.
C5_SaveBeforeAnyStop ==
    \A e \in StopEvents : Before("SaveConfiguration", e)

\* C5 amended: the save after the loop precedes camera SignalToStop and
\* server.Stop; in a build with distance measurements StopMeasurements is
\* called before it; it is made exactly once, also right after a tick that
\* saved.
C5_SaveBeforeCameraAndServerStop ==
    /\ Before("SaveConfiguration", "camera.SignalToStop")
    /\ Before("SaveConfiguration", "server.Stop")
    /\ build.distance =>
          Before("distance.StopMeasurements", "SaveConfiguration")
    /\ ShutDownDone => Count("SaveConfiguration") = 1

C5_Witness ==
    /\ ShutDownDone
    /\ build.distance
    /\ ticks = 60
    /\ saveTicks = {60}
    /\ Count("SaveConfiguration") = 1

\* The ticks whose loop body has made its save decision
TicksDecided == IF pc = "saveCheck" THEN ticks - 1 ELSE ticks

\* C6: counting the timed-out waits from 1, the loop saves exactly on the
\* ticks 60, 120, ...; saveCounter is 0 after a save and stays in 0..59.
C6_TickCountedSave ==
    /\ saveTicks = {t \in 1..TicksDecided : t % 60 = 0}
    /\ saveCounter \in 0..59
    /\ saveCounter = TicksDecided % 60

C6_Witness ==
    /\ pc = "wait"
    /\ ticks = 120
    /\ saveTicks = {60, 120}
    /\ saveCounter = 0

\* C7: main returns 0 on normal shutdown, and a non-zero value when
\* command-line parsing fails and when server.Start returns false.
C7_ExitCodes ==
    pc = "exited" =>
        /\ server = "stopped" => exitCode = << 0 >>
        /\ server = "unstarted" => exitCode[1] # 0
        /\ server = "failed" => exitCode[1] # 0

\* C8: when ParseCommandLine or server.Start fails, camera and distance
\* controller are never started, the loop is never entered, and neither
\* SaveConfiguration nor a camera stop nor server.Stop is called.
C8_EarlyFailureStartsNothing ==
    (server = "failed" \/ (pc = "exited" /\ server = "unstarted")) =>
        /\ pc \in {"shutdown", "exited"}
        /\ camera = "unstarted"
        /\ distance = "unstarted"
        /\ ticks = 0
        /\ saveTicks = {}
        /\ \A e \in {"camera.Start", "distance.StartMeasurements",
                     "SaveConfiguration", "camera.SignalToStop",
                     "camera.WaitForStop", "server.Stop"} : ~In(e)

C8_Witness ==
    /\ pc = "exited"
    /\ server = "failed"
    /\ In("server.Start")

\* C9: a camera error with fatal = true sets the exit event, and the run
\* then ends as after an OS signal: no further loop iteration, the same
\* calls in the same order, exit code 0; an error with fatal = false never
\* signals the event.
C9_FatalCameraError ==
    /\ fatalSeen => ExitEvent
    /\ "OnError.error" \notin signalers
    /\ ExitEvent => ticks = signalTick
    /\ ShutDownDone => (log = CompleteRun /\ exitCode = << 0 >>)

C9_Witness ==
    /\ ShutDownDone
    /\ signalers = {"OnError.fatal"}
    /\ log = CompleteRun

\* C10: the exit event is a latch: it is set exactly when Signal has been
\* called, however often and by whichever callers; once it is set the wait
\* times out no more, and every call of the shutdown path is made once.
C10_ExitLatch ==
    /\ ExitEvent <=> (signalers # {})
    /\ ExitEvent => ticks = signalTick
    /\ \A e \in StopEvents \cup {"SaveConfiguration", "camera.WaitForStop",
                                 "BotShutDown"} : Count(e) <= 1
    /\ ShutDownDone =>
          \A i \in DOMAIN CompleteRun : Count(CompleteRun[i]) = 1

C10_Witness ==
    /\ ShutDownDone
    /\ signalers = {"sigIntHandler", "OnError.fatal"}
    /\ Count("SaveConfiguration") = 1


BodySteps == << "timed out", "save check", "watchdog", "led" >>

\* C17: after a wait that timed out the periodic-save check, the watchdog
\* check and the LED update are made in this order, each once and none
\* before the wait ended; the watchdog's reading and its Stop exist only
\* after the save check of the same iteration; after the wait that reported
\* the exit event none of the three steps is made any more.
C17_BodyOrder ==
    /\ IsPrefix(bodyLog, BodySteps) \/ bodyLog = << "signaled" >>
    /\ (timeSinceMotorAccess # -1 \/ stopIssued) =>
          bodyLog = << "timed out", "save check", "watchdog" >>
    /\ pc = "saveCheck" <=> bodyLog = << "timed out" >>
    /\ bodyLog = << "signaled" >> =>
          /\ ExitEvent
          /\ pc \notin {"wait", "saveCheck", "watchdog", "led"}
          /\ timeSinceMotorAccess = -1

C17_Witness ==
    /\ pc = "exited"
    /\ bodyLog = << "signaled" >>
    /\ ticks = 2
    /\ saveTicks = {}
    /\ motors = "commanded"

\* C18: in a build with the activity LED, the LED update of each loop body
\* leaves the LED On exactly when the time since the latest access to any
\* endpoint is less than 2000 ms, and no other step of the loop changes the
\* LED; the LED is Off from BotInit until the first loop body, and Off once
\* BotShutDown was called, after the loop as after a failed server.Start.
C18_ActivityLed ==
    /\ [](build.activityLed =>
             /\ (In("BotInit") /\ ticks = 0) => led = "Off"
             /\ In("BotShutDown") => led = "Off"
             /\ In("BotInit") => led \in {"On", "Off"})
    /\ [][build.activityLed =>
             /\ (pc = "led" /\ pc' = "wait") =>
                   (led' = "On" <=> anyAge < 2000) /\ led' \in {"On", "Off"}
             /\ (pc \in {"wait", "saveCheck", "watchdog"} \/ pc' = pc) =>
                   led' = led]_vars

C18_Witness ==
    /\ build.activityLed
    /\ pc = "wait"
    /\ ticks = 2
    /\ anyAge = 2000
    /\ led = "Off"

\* The start and the stop call of each subsystem
StartOf ==
    [server |-> "server.Start", camera |-> "camera.Start",
     distance |-> "distance.StartMeasurements"]

StopOf ==
    [server |-> "server.Stop", camera |-> "camera.SignalToStop",
     distance |-> "distance.StopMeasurements"]

\* The changes of state a subsystem may make; the camera is "stopping" from
\* SignalToStop until its thread has ended
Forward ==
    {<< "unstarted", "running" >>, << "unstarted", "failed" >>,
     << "running", "stopping" >>, << "running", "stopped" >>,
     << "stopping", "stopped" >>}

\* C19: web server, camera and distance controller only move forward from
\* unstarted to running to stopped, and leave unstarted and running in steps
\* of main alone; no subsystem is started or stopped twice, none is stopped
\* that was not started before, and when main has returned after a
\* successful server.Start every subsystem that was started is stopped.
C19_SubsystemLifecycle ==
    /\ [](/\ \A s \in DOMAIN StartOf :
               /\ Count(StartOf[s]) <= 1
               /\ Count(StopOf[s]) <= 1
               /\ Before(StartOf[s], StopOf[s])
          /\ Count("camera.WaitForStop") <= 1
          /\ server = "stopped" <=> In("server.Stop")
          /\ camera \in {"stopping", "stopped"} <=> In("camera.SignalToStop")
          /\ distance = "stopped" <=> In("distance.StopMeasurements")
          /\ (pc = "exited" /\ In("server.Start") /\ server # "failed") =>
                /\ server = "stopped"
                /\ camera = "stopped"
                /\ distance = IF build.distance THEN "stopped"
                                                ELSE "unstarted")
    /\ [][/\ \A v \in {<< server, server' >>, << camera, camera' >>,
                       << distance, distance' >>} :
               v[1] # v[2] => v \in Forward
          /\ (server' # server \/ distance' # distance) => pc' # pc
          /\ (camera' # camera /\ camera # "stopping") => pc' # pc]_vars

C19_Witness ==
    /\ pc = "exited"
    /\ build.distance
    /\ server = "stopped"
    /\ camera = "stopped"
    /\ distance = "stopped"
    /\ fatalSeen

\* C20: once the exit event is set and the server was started, the wait
\* times out no more (the loop makes at most the body in progress), and main
\* eventually returns 0 with every call of a complete run made, given that
\* the camera's thread ends so that WaitForStop returns; server.Stop,
\* BotShutDown and the return follow the return of WaitForStop only.
C20_ExitReached ==
    /\ [](/\ ExitEvent => ticks = signalTick
          /\ (In("server.Stop") \/ (In("BotShutDown") /\ In("camera.Start")))
                => (In("camera.WaitForStop") /\ camera = "stopped")
          /\ Before("camera.WaitForStop", "server.Stop"))
    /\ (ExitEvent /\ server = "running") ~>
          (pc = "exited" /\ exitCode = << 0 >> /\ log = CompleteRun)

C20_Witness ==
    /\ pc = "exited"
    /\ exitCode = << 0 >>
    /\ log = CompleteRun
    /\ signalTick = 2
    /\ bodyLog = << "signaled" >>

\* C21: an exit event first set between the installation of the handlers and
\* the loop's first wait stays set; when server.Start succeeds the start-up
\* is still completed (camera.Start is called), no wait times out and no
\* step of the loop body is made, no periodic save happens, and main
\* eventually returns 0 after the calls of a complete run, the final
\* SaveConfiguration made exactly once, given that the camera's thread ends.
C21_EarlySignalKept ==
    /\ [](signalEarly =>
             /\ ExitEvent
             /\ signalTick = 0
             /\ ticks = 0
             /\ saveTicks = {}
             /\ bodyLog \in {<< >>, << "signaled" >>}
             /\ ~stopIssued
             /\ (server = "running" /\ ~BeforeLoop) => In("camera.Start")
             /\ (pc = "exited" /\ server # "failed") =>
                   /\ exitCode = << FinalCode >>
                   /\ log = CompleteRun
                   /\ Count("SaveConfiguration") = 1)
    /\ (signalEarly /\ server = "running") ~>
          (/\ pc = "exited"
           /\ exitCode = << FinalCode >>
           /\ log = CompleteRun
           /\ ticks = 0
           /\ bodyLog = << "signaled" >>)

C21_Witness ==
    /\ pc = "exited"
    /\ signalEarly
    /\ signalers = {"sigIntHandler"}
    /\ exitCode = << FinalCode >>
    /\ log = CompleteRun
    /\ camera = "stopped"
    /\ server = "stopped"
    /\ ticks = 0
    /\ bodyLog = << "signaled" >>

\* C22: when main has returned through the shutdown path after a successful
\* server.Start, the motors are not in the state the latest access to
\* /motors/config left them in: motorsController->Stop was called after it.
C22_StopAfterLastMotorAccess == ShutDownDone => motors # "commanded"

(***************************************************************************)
(* Claims about SetDefaultSettings and ParseCommandLine (SpecParse)        *)
(***************************************************************************)

\* main is past SetDefaultSettings and ParseCommandLine
Parsed == pc # "parse"

\* The tokens before the first one of BadTokens: those to be consumed
Consumed ==
    LET bad == {k \in DOMAIN argv : argv[k] \in BadTokens}
    IN  IF bad = {}
           THEN argv
           ELSE SubSeq(argv, 1, (CHOOSE k \in bad : \A j \in bad : k <= j) - 1)

\* What each accepted token asks for, field by field: << token, value >>
WidthOf ==
    {<< Opt(KeySize, << "0" >>), 320 >>, << Opt(KeySize, << "4" >>), 1120 >>}

HeightOf ==
    {<< Opt(KeySize, << "0" >>), 240 >>, << Opt(KeySize, << "4" >>), 840 >>}

FrameRateOf ==
    {<< Opt(KeyFps, << "4", "5" >>), 30 >>, << Opt(KeyFps, << "0" >>), 30 >>,
     << Opt(KeyFps, << "1", "5" >>), 15 >>}

JpegQualityOf ==
    {<< Opt(KeyJpeg, << "1", "5", "0" >>), 100 >>,
     << Opt(KeyJpeg, << "0" >>), 1 >>}

WebPortOf ==
    {<< Opt(KeyPort, << "9", "0", "9", "0" >>), 9090 >>,
     << Opt(KeyPort, << "7", "0", "0", "0", "0" >>), 65535 >>,
     << Opt(KeyPort, << "-", "1" >>), 65535 >>}

RealmOf == {<< Opt(KeyRealm, << "r" >>), << "r" >> >>}

HtDigestOf == {<< Opt(KeyHtpass, << "f" >>), << "f" >> >>}

ViewerOf ==
    {<< Opt(KeyViewer, << "a", "d", "m", "i", "n" >>), "Admin" >>,
     << Opt(KeyViewer, << "a", "n", "y" >>), "Anyone" >>}

ConfigOf ==
    {<< Opt(KeyConfig, << "u", "s", "e", "r" >>), "User" >>,
     << Opt(KeyConfig, << "a", "n", "y" >>), "Anyone" >>}

FcfgOf == {<< Opt(KeyFcfg, << "c" >>), << "c" >> >>}

WebOf == {<< Opt(KeyWeb, << "w" >>), << "w" >> >>}

TitleOf == {<< Opt(KeyTitle, << "t" >>), << "t" >> >>}

\* The positions in the sequence s of the tokens of a table
Naming(table, s) == {k \in DOMAIN s : \E p \in table : p[1] = s[k]}

\* The value the last token of the table in s asks for, else the default
Expected(table, s, default) ==
    LET ks == Naming(table, s)
    IN  IF ks = {}
           THEN default
           ELSE LET last == CHOOSE k \in ks : \A j \in ks : j <= k
                IN  (CHOOSE p \in table : p[1] = s[last])[2]

\* Settings as SetDefaultSettings leaves them in this environment
Defaults == SetDefaultSettings(ZeroSettings, env)

\* C11: after SetDefaultSettings and ParseCommandLine on any token sequence,
\* an empty Settings.HtDigestFileName implies that ViewersGroup and
\* ConfigGroup are both Anyone, whatever -viewer and -config asked for.
C11_NoUsersFileGroupsAnyone ==
    (Parsed /\ Settings.HtDigestFileName = << >>) =>
        /\ Settings.ViewersGroup = "Anyone"
        /\ Settings.ConfigGroup = "Anyone"

C11_Witness ==
    /\ pc = "botInit"
    /\ argv = << Opt(KeyViewer, << "a", "d", "m", "i", "n" >>),
                 Opt(KeyConfig, << "u", "s", "e", "r" >>) >>
    /\ Settings.HtDigestFileName = << >>
    /\ Settings.ViewersGroup = "Anyone"
    /\ Settings.ConfigGroup = "Anyone"

\* C12: after ParseCommandLine on any token sequence FrameRate is in 1..30,
\* JpegQuality in 1..100 and WebPort in 0..65535, and each has the value its
\* last consumed token asks for, clamped: fps 0 and 45 give 30, jpeg 0 gives
\* 1 and 150 gives 100, port 70000 and -1 (2^32 - 1) give 65535.
C12_NumericRanges ==
    Parsed =>
        /\ Settings.FrameRate \in 1..30
        /\ Settings.JpegQuality \in 1..100
        /\ Settings.WebPort \in 0..65535
        /\ Settings.FrameRate = Expected(FrameRateOf, Consumed, 30)
        /\ Settings.JpegQuality = Expected(JpegQualityOf, Consumed, 10)
        /\ Settings.WebPort = Expected(WebPortOf, Consumed, 8000)

C12_Witness ==
    /\ pc = "botInit"
    /\ argv = << Opt(KeyPort, << "9", "0", "9", "0" >>),
                 Opt(KeyFps, << "4", "5" >>),
                 Opt(KeyJpeg, << "1", "5", "0" >>) >>
    /\ Settings.WebPort = 9090
    /\ Settings.FrameRate = 30
    /\ Settings.JpegQuality = 100

\* The fields of Settings with the table of the tokens that name each
FieldTables ==
    [FrameWidth |-> WidthOf, FrameHeight |-> HeightOf,
     FrameRate |-> FrameRateOf, JpegQuality |-> JpegQualityOf,
     WebPort |-> WebPortOf, HtRealm |-> RealmOf,
     HtDigestFileName |-> HtDigestOf, CameraConfigFileName |-> FcfgOf,
     CustomWebContent |-> WebOf, BotTitle |-> TitleOf,
     ViewersGroup |-> ViewerOf, ConfigGroup |-> ConfigOf]

\* C13 as stated: when ParseCommandLine accepted every token, each field
\* that no supplied option names has its default value, also in command
\* lines that contain -htpass.
C13_UnnamedFieldsDefault ==
    pc = "botInit" =>
        \A f \in DOMAIN FieldTables :
            Naming(FieldTables[f], argv) = {} => Settings[f] = Defaults[f]

\* C13 amended: when ParseCommandLine accepted every token, each field other
\* than the two groups has the value its last option asks for, or its
\* default when no option names it. Without -htpass both groups are Anyone;
\* with -htpass ViewersGroup is what the last -viewer asks for, or User, and
\* ConfigGroup is what the last -config asks for, or Admin.
C13_FieldsOfOptions ==
    pc = "botInit" =>
        /\ \A f \in DOMAIN FieldTables \ {"ViewersGroup", "ConfigGroup"} :
              Settings[f] = Expected(FieldTables[f], argv, Defaults[f])
        /\ Settings.ViewersGroup =
              IF Naming(HtDigestOf, argv) = {}
                 THEN "Anyone"
                 ELSE Expected(ViewerOf, argv, "User")
        /\ Settings.ConfigGroup =
              IF Naming(HtDigestOf, argv) = {}
                 THEN "Anyone"
                 ELSE Expected(ConfigOf, argv, "Admin")

C13_Witness ==
    /\ pc = "botInit"
    /\ argv = << Opt(KeyHtpass, << "f" >>), Opt(KeyFcfg, << "c" >>),
                 Opt(KeySize, << "4" >>) >>
    /\ Settings.ViewersGroup = "User"
    /\ Settings.ConfigGroup = "Admin"
    /\ Settings.CameraConfigFileName = << "c" >>
    /\ Settings.CustomWebContent = Defaults.CustomWebContent

\* C14: ParseCommandLine stops at the first token that has no ':', does not
\* start with '-', has an empty key or value, or an unknown key or value:
\* Settings are those of the tokens before it alone, and main goes on
\* (ParseCommandLine returned true) exactly when there is no such token.
C14_StopsAtFirstBadToken ==
    Parsed =>
        /\ Settings = ParseCommandLine(Defaults, Consumed).Settings
        /\ pc = "botInit" <=> Consumed = argv
        /\ pc = "exited" <=> Consumed # argv
        /\ pc = "exited" => exitCode = << -1 >>
        /\ \A f \in DOMAIN FieldTables \ {"ViewersGroup", "ConfigGroup"} :
              Settings[f] = Expected(FieldTables[f], Consumed, Defaults[f])

C14_Witness ==
    /\ pc = "exited"
    /\ argv = << Opt(KeyFps, << "1", "5" >>), << "-", "f", "p", "s" >>,
                 Opt(KeyPort, << "9", "0", "9", "0" >>) >>
    /\ Settings.FrameRate = 15
    /\ Settings.WebPort = 8000

\* C16: for a command line of accepted tokens with at most one -htpass, one
\* -viewer and one -config, every order of its tokens resolves to the same
\* ViewersGroup and ConfigGroup.
C16_GroupsIndependentOfOrder ==
    (/\ pc = "botInit"
     /\ \A t \in {HtDigestOf, ViewerOf, ConfigOf} :
           Cardinality(Naming(t, argv)) <= 1) =>
        \A p \in Reorderings(argv) :
            LET r == ParseCommandLine(Defaults, p)
            IN  /\ r.ret
                /\ r.Settings.ViewersGroup = Settings.ViewersGroup
                /\ r.Settings.ConfigGroup = Settings.ConfigGroup

C16_Witness ==
    /\ pc = "botInit"
    /\ argv = << Opt(KeyViewer, << "a", "d", "m", "i", "n" >>),
                 Opt(KeyHtpass, << "f" >>),
                 Opt(KeyConfig, << "u", "s", "e", "r" >>) >>
    /\ Settings.ViewersGroup = "Admin"
    /\ Settings.ConfigGroup = "User"
====
